---- MODULE Spec2Model ----
(***************************************************************************)
(* Stock_Market_Analyser: the historical-data parser (get_historical_data), *)
(* the two indicators (calculate_sma, calculate_rsi) and the command loop   *)
(* (main) of stock_analyser.py.                                             *)
(*                                                                          *)
(* Three specifications share the variables:                                *)
(*   SpecIndicator  calculate_sma / calculate_rsi applied to bounded tables *)
(*   SpecParser     get_historical_data applied to bounded API responses    *)
(*   Spec           the read loop of main()                                 *)
(*                                                                          *)
(* Floating values are modelled as exact rationals n/d (d > 0) plus NaN and *)
(* the two infinities; rounding and the sign of zero are not modelled.      *)
(***************************************************************************)
EXTENDS Integers, Sequences, FiniteSets, TLC

VARIABLES
    \* ---- calculate_sma / calculate_rsi call (SpecIndicator) ----
    df,          \* the caller's table, as the callee leaves it
    df0,         \* the caller's table as it was before the call
    window,      \* the window argument (also main's parsed window)
    column,      \* the column argument
    ret,         \* the value returned by the function under call
    phase,       \* "ready" before the call, "sma"/"rsi"/"hist" after it, "off"
    \* ---- get_historical_data call (SpecParser) ----
    data,        \* response.json() of the call, or the transport failure
    \* ---- main() (Spec) ----
    API_KEY,     \* module global: TRUE when config.ini supplied a key
    pc,          \* position of main: "input", "quote", "hist", "wait",
                 \* "sleep", "exited", "crashed", "off"
    parts,       \* user_input.strip().lower().split() of the current command
    histAges,    \* age of each TIME_SERIES_DAILY request of the last
                 \* RateWindow time-units, oldest first
    netReqs,     \* network requests issued while handling the current command
    out          \* what the current command printed / plotted last

vars == <<df, df0, window, column, ret, phase, data,
          API_KEY, pc, parts, histAges, netReqs, out>>

loopVars == <<API_KEY, pc, parts, histAges, netReqs, out>>

(***************************************************************************)
(* Bounds of the model.                                                     *)
(***************************************************************************)
MaxLen     == 4    \* rows of a table handed to an indicator
MaxPrice   == 3    \* prices are 1..MaxPrice
MaxWindow  == 5    \* windows are -NegWindows..MaxWindow
NegWindows == 1
MaxBars    == 3    \* date keys of a historical payload
MaxDay     == 2    \* calendar days 1..MaxDay
MaxLatency == 2    \* a network call takes 0 or MaxLatency time-units
MaxIdle    == 10   \* the user waits 0 or MaxIdle time-units at the prompt

(***************************************************************************)
(* Floating values.                                                         *)
(***************************************************************************)
Q(n, d) == [k |-> "q", n |-> n, d |-> d]
NaN     == [k |-> "nan", n |-> 0, d |-> 1]
Inf     == [k |-> "inf", n |-> 1, d |-> 1]    \* n is the sign
\* object cells: a string that spells the number n, a string that spells none
Str(n)  == [k |-> "str", n |-> n, d |-> 1]
Text    == [k |-> "text", n |-> 0, d |-> 1]

IsQ(x)   == x.k = "q"
IsNaN(x) == x.k = "nan"

Sign(n) == IF n < 0 THEN -1 ELSE 1
Abs(n)  == IF n < 0 THEN 0 - n ELSE n

QNeg(a) ==
    IF IsNaN(a) THEN NaN
    ELSE IF a.k = "inf" THEN [a EXCEPT !.n = 0 - a.n]
    ELSE Q(0 - a.n, a.d)

QAdd(a, b) ==
    IF IsNaN(a) \/ IsNaN(b) THEN NaN
    ELSE IF a.k = "inf" /\ b.k = "inf" THEN (IF a.n = b.n THEN a ELSE NaN)
    ELSE IF a.k = "inf" THEN a
    ELSE IF b.k = "inf" THEN b
    ELSE Q(a.n * b.d + b.n * a.d, a.d * b.d)

QSub(a, b) == QAdd(a, QNeg(b))

\* IEEE division: x/0 is an infinity, 0/0 and inf/inf are NaN, x/inf is 0
QDiv(a, b) ==
    IF IsNaN(a) \/ IsNaN(b) THEN NaN
    ELSE IF b.k = "inf" THEN (IF a.k = "inf" THEN NaN ELSE Q(0, 1))
    ELSE IF a.k = "inf" THEN [a EXCEPT !.n = a.n * Sign(b.n)]
    ELSE IF b.n = 0 THEN (IF a.n = 0 THEN NaN ELSE [Inf EXCEPT !.n = Sign(a.n)])
    ELSE Q(a.n * b.d * Sign(b.n), a.d * Abs(b.n))

QEq(a, b) == IsQ(a) /\ IsQ(b) /\ a.n * b.d = b.n * a.d
QLe(a, b) == IsQ(a) /\ IsQ(b) /\ a.n * b.d <= b.n * a.d

(***************************************************************************)
(* pandas helpers.                                                          *)
(***************************************************************************)
\* pd.to_numeric(errors='coerce') on one cell
ToNumericCell(c) ==
    IF c.k = "str" THEN Q(c.n, c.d)
    ELSE IF c.k = "text" THEN NaN
    ELSE c

ToNumeric(cells) == [i \in 1..Len(cells) |-> ToNumericCell(cells[i])]

\* rolling(window=w): the running (sum, nobs) after row i; a row enters the
\* window at i and leaves it at i + w, NaN rows are not observations
RECURSIVE RollAcc(_, _, _)
RollAcc(vals, w, i) ==
    IF i = 0 THEN [s |-> Q(0, 1), nobs |-> 0]
    ELSE LET p  == RollAcc(vals, w, i - 1)
             a  == IF IsNaN(vals[i]) THEN p
                   ELSE [s |-> QAdd(p.s, vals[i]), nobs |-> p.nobs + 1]
         IN  IF i - w >= 1 /\ ~IsNaN(vals[i - w])
             THEN [s |-> QSub(a.s, vals[i - w]), nobs |-> a.nobs - 1]
             ELSE a

\* the off-by-one variant: a point as soon as w - 1 observations are in
RollingMeanEarly(vals, w) ==
    [i \in 1..Len(vals) |->
        LET acc == RollAcc(vals, w, i)
        IN  IF acc.nobs >= w - 1 /\ acc.nobs > 0
            THEN Q(acc.s.n, acc.s.d * acc.nobs) ELSE NaN]

\* .rolling(window=w).mean(): min_periods defaults to the window
RollingMean(vals, w) ==
    [i \in 1..Len(vals) |->
        LET acc == RollAcc(vals, w, i)
        IN  IF acc.nobs >= w /\ acc.nobs > 0
            THEN Q(acc.s.n, acc.s.d * acc.nobs) ELSE NaN]

\* Series.diff()
Diff(vals) ==
    [i \in 1..Len(vals) |-> IF i = 1 THEN NaN ELSE QSub(vals[i], vals[i - 1])]

\* Series.dropna(): the (label, value) points whose value is not NaN
RECURSIVE DropNa(_, _, _)
DropNa(index, vals, i) ==
    IF i > Len(vals) THEN <<>>
    ELSE IF IsNaN(vals[i]) THEN DropNa(index, vals, i + 1)
    ELSE <<[idx |-> index[i], v |-> vals[i]]>> \o DropNa(index, vals, i + 1)

(***************************************************************************)
(* Tables and return values.                                                *)
(***************************************************************************)
NoneDf     == [none |-> TRUE, index |-> <<>>, cols |-> [close |-> <<>>]]
None       == [none |-> TRUE, s |-> <<>>]
Series(s)  == [none |-> FALSE, s |-> s]
Empty(t)   == Len(t.index) = 0

\* df[column] = values
SetColumn(t, c, values) ==
    [t EXCEPT !.cols = [x \in (DOMAIN t.cols) \cup {c} |->
                            IF x = c THEN values ELSE t.cols[x]]]

(***************************************************************************)
(* calculate_sma(df, window, column): the table it leaves and what it       *)
(* returns.                                                                 *)
(***************************************************************************)
\* the guard with the window test slipped to "< 0"
SmaRejectsZeroOk(t, w, c) ==
    \/ t.none \/ Empty(t) \/ c \notin DOMAIN t.cols
    \/ w < 0

\* lines 183-188: the guards that return None
SmaRejects(t, w, c) ==
    \/ t.none \/ Empty(t) \/ c \notin DOMAIN t.cols
    \/ w <= 0

calculate_sma(t, w, c) ==
    IF SmaRejects(t, w, c) THEN [df |-> t, ret |-> None]
    ELSE LET coerced == SetColumn(t, c, ToNumeric(t.cols[c]))
             sma     == RollingMean(coerced.cols[c], w)
         IN  [df |-> coerced, ret |-> Series(DropNa(coerced.index, sma, 1))]

(***************************************************************************)
(* calculate_rsi(df, window, column).                                       *)
(***************************************************************************)
\* delta.where(delta > 0, 0): rows where the test is false (NaN included)
\* become 0
WherePositive(delta) ==
    [i \in 1..Len(delta) |->
        IF IsQ(delta[i]) /\ delta[i].n > 0 THEN delta[i] ELSE Q(0, 1)]

WhereNegative(delta) ==
    [i \in 1..Len(delta) |->
        IF IsQ(delta[i]) /\ delta[i].n < 0 THEN delta[i] ELSE Q(0, 1)]

\* (-delta.where(delta < 0, 0)) with the negation lost
LossRawSigned(delta) == WhereNegative(delta)

\* -delta.where(delta < 0, 0)
LossRaw(delta) == [i \in 1..Len(delta) |-> QNeg(WhereNegative(delta)[i])]

\* rsi = 100 - (100 / (1 + rs))
RsiOf(rs) == QSub(Q(100, 1), QDiv(Q(100, 1), QAdd(Q(1, 1), rs)))

RsiRows(gain, loss) ==
    [i \in 1..Len(gain) |-> RsiOf(QDiv(gain[i], loss[i]))]

RsiRejects(t, w, c) ==
    \/ t.none \/ Empty(t) \/ c \notin DOMAIN t.cols
    \/ w <= 0

calculate_rsi(t, w, c) ==
    IF RsiRejects(t, w, c) THEN [df |-> t, ret |-> None]
    ELSE LET coerced == SetColumn(t, c, ToNumeric(t.cols[c]))
             delta   == Diff(coerced.cols[c])
             gain    == RollingMean(WherePositive(delta), w)
             loss    == RollingMean(LossRaw(delta), w)
             rsi     == RsiRows(gain, loss)
         IN  [df |-> coerced, ret |-> Series(DropNa(coerced.index, rsi, 1))]

(***************************************************************************)
(* SpecIndicator: one call of an indicator on a table of the caller.        *)
(***************************************************************************)
Cells == {Q(p, 1) : p \in 1..MaxPrice} \cup {NaN, Str(2), Text}

SeqsUpTo(S, n) == UNION {[1..m -> S] : m \in 0..n}

MkDf(cells) ==
    [none  |-> FALSE,
     index |-> [i \in 1..Len(cells) |-> i],
     cols  |-> [close |-> cells, volume |-> [i \in 1..Len(cells) |-> Q(1, 1)]]]

Tables == {NoneDf} \cup {MkDf(cells) : cells \in SeqsUpTo(Cells, MaxLen)}

LoopIdle ==
    /\ API_KEY = TRUE /\ pc = "off" /\ parts = <<>>
    /\ histAges = <<>> /\ netReqs = 0 /\ out = "none"

InitIndicator ==
    /\ df \in Tables
    /\ df0 = df
    /\ window \in (0 - NegWindows)..MaxWindow
    /\ column \in {"close", "adjusted_close"}
    /\ ret = None
    /\ phase = "ready"
    /\ data = [kind |-> "none", series |-> <<>>]
    /\ LoopIdle

CallSma ==
    /\ phase = "ready" /\ pc = "off"
    /\ LET r == calculate_sma(df, window, column)
       IN  df' = r.df /\ ret' = r.ret
    /\ phase' = "sma"
    /\ UNCHANGED <<df0, window, column, data>>
    /\ UNCHANGED loopVars

CallRsi ==
    /\ phase = "ready" /\ pc = "off"
    /\ LET r == calculate_rsi(df, window, column)
       IN  df' = r.df /\ ret' = r.ret
    /\ phase' = "rsi"
    /\ UNCHANGED <<df0, window, column, data>>
    /\ UNCHANGED loopVars

NextIndicator == CallSma \/ CallRsi

SpecIndicator == InitIndicator /\ [][NextIndicator]_vars

(***************************************************************************)
(* get_historical_data(symbol, outputsize).                                 *)
(*                                                                          *)
(* A response is a transport failure (a requests exception), a body with an *)
(* "Error Message", a body with neither key, or a body whose                *)
(* "Time Series (Daily)" maps date keys to records.  The mapping is kept as *)
(* the sequence of its entries in document order; its keys are distinct     *)
(* strings.  A key is the ISO spelling of a day ("2024-01-02"), another     *)
(* spelling of the same day ("2024/01/02"), or no date at all.              *)
(***************************************************************************)
RawFields == {"1. open", "2. high", "3. low", "4. close", "5. volume"}
numeric_cols == {"open", "high", "low", "close", "volume"}

\* df.rename(columns={...})
Rename(f) ==
    CASE f = "1. open"   -> "open"
      [] f = "2. high"   -> "high"
      [] f = "3. low"    -> "low"
      [] f = "4. close"  -> "close"
      [] f = "5. volume" -> "volume"
      [] OTHER           -> f

\* pd.to_datetime on one key: the day it spells; keys are parsed one by one
DateValid(key)  == key.form \in {"iso", "alt"}
ToDatetime(key) == key.day

\* pd.DataFrame.from_dict(series, orient='index'): one row per key in
\* document order, one column per field any record has, NaN where a record
\* lacks the field
FromDict(series) ==
    LET fields == UNION {DOMAIN series[i].rec : i \in 1..Len(series)}
    IN  [none  |-> FALSE,
         index |-> [i \in 1..Len(series) |-> series[i].key],
         cols  |-> [f \in fields |->
                      [i \in 1..Len(series) |->
                          IF f \in DOMAIN series[i].rec
                          THEN series[i].rec[f] ELSE NaN]]]

RowOrders(n) ==
    {p \in [1..n -> 1..n] : \A i, j \in 1..n : p[i] = p[j] => i = j}

Reorder(t, p) ==
    [t EXCEPT !.index = [i \in 1..Len(t.index) |-> t.index[p[i]]],
              !.cols  = [c \in DOMAIN t.cols |->
                            [i \in 1..Len(t.index) |-> t.cols[c][p[i]]]]]

IsMonotonic(idx) == \A i \in 1..(Len(idx) - 1) : idx[i] <= idx[i + 1]

\* df.sort_index(): a monotonic index is returned as it is; otherwise the
\* rows are put in ascending order of their labels by the default
\* (unstable) sort, so rows with equal labels may come out in either order
SortIndex(t) ==
    IF IsMonotonic(t.index) THEN {t}
    ELSE {Reorder(t, p) : p \in {q \in RowOrders(Len(t.index)) :
                                    IsMonotonic(Reorder(t, q).index)}}

\* lines 106-125: the table built from data["Time Series (Daily)"], or the
\* exception the construction raises
ParseSeries(series) ==
    LET raw     == FromDict(series)
        renamed == [raw EXCEPT !.cols = [c \in {Rename(f) : f \in DOMAIN raw.cols} |->
                       raw.cols[CHOOSE f \in DOMAIN raw.cols : Rename(f) = c]]]
    IN  IF \E i \in 1..Len(series) : ~DateValid(series[i].key)
        THEN {[kind |-> "raise", df |-> NoneDf, exc |-> "ValueError"]}
        ELSE IF ~(numeric_cols \subseteq DOMAIN renamed.cols)
        THEN {[kind |-> "raise", df |-> NoneDf, exc |-> "KeyError"]}
        ELSE LET dated   == [renamed EXCEPT !.index =
                               [i \in 1..Len(series) |-> ToDatetime(series[i].key)]]
                 numeric == [dated EXCEPT !.cols =
                               [c \in DOMAIN dated.cols |->
                                   IF c \in numeric_cols
                                   THEN ToNumeric(dated.cols[c])
                                   ELSE dated.cols[c]]]
                 adj     == SetColumn(numeric, "adjusted_close", numeric.cols["close"])
             IN  {[kind |-> "df", df |-> t, exc |-> "none"] : t \in SortIndex(adj)}

\* the outcomes of one call: what is returned or raised, whether a request
\* went out, whether a message was printed
get_historical_data(key, resp) ==
    IF ~key
    THEN {[kind |-> "none", df |-> NoneDf, exc |-> "none",
           requested |-> FALSE, printed |-> TRUE]}
    ELSE IF resp.kind = "series"
    THEN {[kind |-> o.kind, df |-> o.df, exc |-> o.exc,
           requested |-> TRUE, printed |-> FALSE] : o \in ParseSeries(resp.series)}
    ELSE {[kind |-> "none", df |-> NoneDf, exc |-> "none",
           requested |-> TRUE, printed |-> TRUE]}

(***************************************************************************)
(* SpecParser: one call of get_historical_data on a response.               *)
(***************************************************************************)
DateKeys ==
    {[form |-> f, day |-> d] : f \in {"iso", "alt"}, d \in 1..MaxDay}
        \cup {[form |-> "junk", day |-> 0]}

Records ==
    {[f \in flds |-> IF f = "4. close" THEN c ELSE Str(1)] :
        flds \in {RawFields, RawFields \ {"5. volume"}},
        c \in {Str(1), Str(2), Text}}

Entries == {[key |-> k, rec |-> r] : k \in DateKeys, r \in Records}

Payloads(n) ==
    {p \in SeqsUpTo(Entries, n) :
        \A i, j \in 1..Len(p) : p[i].key = p[j].key => i = j}

Responses(n) ==
    {[kind |-> k, series |-> <<>>] : k \in {"http_error", "error_message", "no_data"}}
        \cup {[kind |-> "series", series |-> p] : p \in Payloads(n)}

InitParser ==
    /\ df = NoneDf /\ df0 = NoneDf
    /\ window = 0 /\ column = "close" /\ ret = None
    /\ phase = "ready"
    /\ data \in Responses(MaxBars)
    /\ API_KEY \in BOOLEAN
    /\ pc = "off" /\ parts = <<>>
    /\ histAges = <<>> /\ netReqs = 0 /\ out = "none"

CallGetHistoricalData ==
    /\ phase = "ready" /\ pc = "off" /\ data.kind # "none"
    /\ \E o \in get_historical_data(API_KEY, data) :
          /\ df' = o.df
          /\ phase' = IF o.kind = "raise" THEN "raised" ELSE "returned"
          /\ netReqs' = IF o.requested THEN 1 ELSE 0
          /\ out' = IF o.kind = "raise" THEN o.exc
                    ELSE IF o.printed THEN "message" ELSE "none"
    /\ UNCHANGED <<df0, window, column, ret, data, API_KEY, pc, parts, histAges>>

NextParser == CallGetHistoricalData

SpecParser == InitParser /\ [][NextParser]_vars

(***************************************************************************)
(* main(): the read loop.                                                   *)
(*                                                                          *)
(* The loop is cut at its blocking calls: input(), requests.get() and       *)
(* time.sleep().  Time passes while the user sits at the prompt, while a    *)
(* request is outstanding and during the sleep; time.sleep(15) suspends for *)
(* 15 time-units, the shortest pause it can give.  The clock is kept as the *)
(* age of each historical request issued in the last RateWindow time-units. *)
(***************************************************************************)
\* "Alpha Vantage free tier: 5 calls/minute"
RateWindow  == 60
RateCeiling == 5

PauseShort == 15 \div 3

\* time.sleep(15)
PauseUnits == 15

\* every age grows by d; requests older than the provider's window are
\* forgotten
Elapse(ages, d) ==
    SelectSeq([i \in 1..Len(ages) |-> ages[i] + d], LAMBDA a : a <= RateWindow)

LoopBars == 1    \* date keys of a payload served to the loop

CommandWords == {"quote", "history", "sma", "rsi"}
WindowWords  == {"1", "0", "-1", "x"}

\* user_input.strip().lower().split(): the token lists the user can type
Inputs ==
    {<<>>, <<"exit">>, <<"help">>}
        \cup {<<c>> : c \in CommandWords}
        \cup {<<c, "ibm">> : c \in CommandWords}
        \cup {<<c, "ibm", w>> : c \in {"sma", "rsi"}, w \in WindowWords}

\* int(window_str): the tokens that spell an integer, and the integer
IntOf == [t \in {"1", "0", "-1"} |->
             CASE t = "1" -> 1 [] t = "0" -> 0 [] t = "-1" -> -1]

\* the window test with "<= 0" slipped to "< 0"
WindowAcceptedZeroOk(tok) == tok \in DOMAIN IntOf /\ ~(IntOf[tok] < 0)

\* lines 268-274 / 290-296: int() succeeds and the window is positive
WindowAccepted(tok) == tok \in DOMAIN IntOf /\ ~(IntOf[tok] <= 0)

\* the pause taken only when the fetch gave a table
AfterHistoryOnSuccess(o) ==
    IF o.kind = "raise" THEN "crashed"
    ELSE IF o.kind = "df" THEN "sleep" ELSE "input"

\* where main goes once get_historical_data is over: an exception leaves
\* main, every return reaches time.sleep
AfterHistory(o) == IF o.kind = "raise" THEN "crashed" ELSE "sleep"

\* plot_indicator(price_series, indicator_series, ...)
plot_indicator(series) ==
    IF series.none \/ Len(series.s) = 0 THEN "no_data_to_plot" ELSE "plotted"

Init ==
    /\ df = NoneDf /\ df0 = NoneDf
    /\ window = 0 /\ column = "close" /\ ret = None
    /\ phase = "off"
    /\ data = [kind |-> "none", series |-> <<>>]
    /\ API_KEY \in BOOLEAN
    /\ pc = "input" /\ parts = <<>>
    /\ histAges = <<>> /\ netReqs = 0 /\ out = "none"

\* lines 238-249, 253-256, 263-274, 285-296, 307-308: input() and the
\* dispatch up to the first network call
ReadCommand ==
    /\ pc = "input"
    /\ \E typed \in Inputs, idle \in {0, MaxIdle} :
          LET command == IF Len(typed) > 0 THEN typed[1] ELSE ""
              symbol  == IF Len(typed) > 1 THEN typed[2] ELSE ""
          IN  /\ histAges' = Elapse(histAges, idle)
              /\ parts' = typed
              /\ netReqs' = 0
              /\ CASE command = "exit" ->
                        pc' = "exited" /\ out' = "goodbye" /\ window' = window
                   [] command \in {"quote", "history"} /\ symbol = "" ->
                        pc' = "input" /\ out' = "need_symbol" /\ window' = window
                   [] command = "quote" /\ symbol # "" ->
                        pc' = "quote" /\ out' = "none" /\ window' = window
                   [] command = "history" /\ symbol # "" ->
                        pc' = "hist" /\ out' = "none" /\ window' = window
                   [] command \in {"sma", "rsi"} /\ Len(typed) < 3 ->
                        pc' = "input" /\ out' = "usage" /\ window' = window
                   [] command \in {"sma", "rsi"} /\ Len(typed) >= 3
                          /\ ~WindowAccepted(typed[3]) ->
                        /\ pc' = "input" /\ out' = "invalid_window"
                        /\ window' = IF typed[3] \in DOMAIN IntOf
                                     THEN IntOf[typed[3]] ELSE window
                   [] command \in {"sma", "rsi"} /\ Len(typed) >= 3
                          /\ WindowAccepted(typed[3]) ->
                        pc' = "hist" /\ out' = "none" /\ window' = IntOf[typed[3]]
                   [] OTHER ->
                        pc' = "input" /\ out' = "invalid_command" /\ window' = window
    /\ UNCHANGED <<df, df0, column, ret, phase, data, API_KEY>>

\* lines 250-252 with get_stock_quote (lines 35-65)
QuoteFetch ==
    /\ pc = "quote"
    /\ IF ~API_KEY
       THEN /\ out' = "fetch_message"
            /\ UNCHANGED <<histAges, netReqs>>
       ELSE \E resp \in {"quote", "error_message", "no_data", "http_error"},
               latency \in {0, MaxLatency} :
               /\ histAges' = Elapse(histAges, latency)
               /\ netReqs' = netReqs + 1
               /\ out' = IF resp = "quote" THEN "quote_shown" ELSE "fetch_message"
    /\ pc' = "input"
    /\ UNCHANGED <<df, df0, window, column, ret, phase, data, API_KEY, parts>>

\* what the history / sma / rsi branch does with the table it was given
\* (lines 258-261, 277-283, 299-305)
Present(command, t, w) ==
    CASE command = "history" -> "history_plotted"
      [] command = "sma" ->
            LET r == calculate_sma(t, w, "close")
            IN  IF r.ret.none THEN "could_not_calculate" ELSE plot_indicator(r.ret)
      [] command = "rsi" ->
            LET r == calculate_rsi(t, w, "close")
            IN  IF r.ret.none THEN "could_not_calculate" ELSE plot_indicator(r.ret)

\* lines 257, 276, 298 with lines 80-92: get_historical_data up to
\* requests.get; without a key it returns None and the branch falls through
\* to time.sleep
HistoryRequest ==
    /\ pc = "hist"
    /\ IF ~API_KEY
       THEN /\ out' = "fetch_message" /\ pc' = "sleep"
            /\ UNCHANGED <<histAges, netReqs>>
       ELSE /\ histAges' = Append(histAges, 0)
            /\ netReqs' = netReqs + 1
            /\ pc' = "wait" /\ out' = out
    /\ UNCHANGED <<df, df0, window, column, ret, phase, data, API_KEY, parts>>

\* lines 92-139 and 258-261, 277-283, 299-305: the response arrives,
\* get_historical_data returns or raises, the branch runs up to time.sleep
HistoryResponse ==
    /\ pc = "wait"
    /\ \E resp \in Responses(LoopBars), latency \in {0, MaxLatency} :
       \E o \in get_historical_data(API_KEY, resp) :
          /\ histAges' = Elapse(histAges, latency)
          /\ out' = CASE o.kind = "raise" -> o.exc
                      [] o.kind = "none"  -> "fetch_message"
                      [] o.kind = "df"    -> Present(parts[1], o.df, window)
          /\ pc' = AfterHistory(o)
    /\ UNCHANGED <<df, df0, window, column, ret, phase, data, API_KEY, parts, netReqs>>

\* lines 262, 284, 306: time.sleep(15), then back to the prompt
Sleep ==
    /\ pc = "sleep"
    /\ histAges' = Elapse(histAges, PauseUnits)
    /\ pc' = "input"
    /\ UNCHANGED <<df, df0, window, column, ret, phase, data, API_KEY,
                   parts, netReqs, out>>

Next == ReadCommand \/ QuoteFetch \/ HistoryRequest \/ HistoryResponse \/ Sleep

Spec == Init /\ [][Next]_vars

(***************************************************************************)
(* Properties of the indicators (SpecIndicator).                            *)
(***************************************************************************)
Called     == phase \in {"sma", "rsi"}
RowCount   == Len(df0.index)
HasColumn  == ~df0.none /\ column \in DOMAIN df0.cols
FullyNumeric ==
    HasColumn /\ \A i \in 1..RowCount : IsQ(df0.cols[column][i])

\* the sum of the cells lo..hi of the caller's column, taken directly
RECURSIVE SliceSum(_, _, _)
SliceSum(cells, lo, hi) ==
    IF lo > hi THEN Q(0, 1) ELSE QAdd(cells[lo], SliceSum(cells, lo + 1, hi))

SmaCase == phase = "sma" /\ FullyNumeric /\ 1 <= window /\ window <= RowCount

\* C1: on a fully numeric column and a window 1 <= w <= n, calculate_sma
\* returns n - w + 1 points, one per row from the w-th on, each the
\* arithmetic mean of the w cells ending at its row.
C1_SmaLengthAndMean ==
    SmaCase =>
        /\ ~ret.none
        /\ Len(ret.s) = RowCount - window + 1
        /\ \A j \in 1..Len(ret.s) :
              LET i   == window - 1 + j
                  sum == SliceSum(df0.cols[column], i - window + 1, i)
              IN  /\ ret.s[j].idx = df0.index[i]
                  /\ QEq(ret.s[j].v, Q(sum.n, sum.d * window))

C1_Witness ==
    /\ SmaCase /\ window >= 2 /\ window < RowCount
    /\ Len(ret.s) = RowCount - window + 1
    /\ ~QEq(ret.s[1].v, ret.s[2].v)

\* C2: calculate_rsi returns no point at a row i < w (rows counted from 0)
\* and no point whose window (rows i-w..i) holds an undefined value.
C2_RsiOmitsUndefined ==
    (phase = "rsi" /\ ~ret.none) =>
        \A j \in 1..Len(ret.s) :
            LET i == ret.s[j].idx
            IN  /\ i - 1 >= window
                /\ \A r \in (i - window)..i : ~IsNaN(df.cols[column][r])

\* C3: calculate_sma and calculate_rsi leave the caller's table cell for
\* cell as it was, whether they succeed or fail.
C3_CallerTableUnchanged == Called => df = df0

\* C5: every value calculate_rsi returns lies in [0, 100].
C5_RsiInRange ==
    (phase = "rsi" /\ ~ret.none) =>
        \A j \in 1..Len(ret.s) :
            QLe(Q(0, 1), ret.s[j].v) /\ QLe(ret.s[j].v, Q(100, 1))

C5_Witness ==
    /\ phase = "rsi" /\ ~ret.none
    /\ \E j \in 1..Len(ret.s) :
          /\ ~QEq(ret.s[j].v, Q(0, 1))
          /\ ~QEq(ret.s[j].v, Q(100, 1))
    /\ \E j \in 1..Len(ret.s) : QEq(ret.s[j].v, Q(100, 1))

BadArguments ==
    \/ df0.none
    \/ RowCount = 0
    \/ ~HasColumn
    \/ window <= 0

\* C6: with an absent or empty table, a column the table lacks, or a window
\* <= 0, calculate_sma and calculate_rsi return None: no indicator series.
C6_BadArgumentsGiveNone ==
    (Called /\ BadArguments) => (ret.none /\ ret.s = <<>>)

C6_Witness ==
    /\ Called /\ window <= 0 /\ HasColumn /\ RowCount > 0
    /\ ret.none

(***************************************************************************)
(* Properties of get_historical_data (SpecParser).                          *)
(***************************************************************************)
ParserCase ==
    /\ phase \in {"returned", "raised"}
    /\ API_KEY /\ data.kind = "series"
    /\ \A i \in 1..Len(data.series) : DateValid(data.series[i].key)

KeyDates == [i \in 1..Len(data.series) |-> ToDatetime(data.series[i].key)]

\* C9: for a payload whose date keys are all valid, in any key order,
\* get_historical_data returns one bar per date key, strictly ascending by
\* date, each bar with the values of its own key; an already ascending
\* payload keeps its order.
C9_OneBarPerKeyAscending ==
    ParserCase =>
        /\ phase = "returned" /\ ~df.none
        /\ Len(df.index) = Len(data.series)
        /\ \A i \in 1..(Len(df.index) - 1) : df.index[i] < df.index[i + 1]
        /\ \A i \in 1..Len(data.series) :
              \E r \in 1..Len(df.index) :
                 /\ df.index[r] = KeyDates[i]
                 /\ df.cols["close"][r] =
                        ToNumericCell(data.series[i].rec["4. close"])
        /\ IsMonotonic(KeyDates) => df.index = KeyDates

(***************************************************************************)
(* Properties of the read loop (Spec).                                      *)
(***************************************************************************)
\* C4: no error outcome ends the read loop: the loop is left only by the
\* 'exit' command, and a command that fails ends with a message.
C4_LoopEndsOnlyOnExit ==
    /\ pc \in {"exited", "crashed"} => (parts # <<>> /\ parts[1] = "exit")
    /\ out \notin {"ValueError", "KeyError"}

PositiveIntWords == {"1"}

\* the commands the claim calls invalid: a fetch command without its
\* symbol, or sma / rsi with a window that is no positive integer
MustBeRejected ==
    /\ parts # <<>>
    /\ parts[1] \in CommandWords
    /\ \/ Len(parts) < 2
       \/ /\ parts[1] \in {"sma", "rsi"}
          /\ (Len(parts) < 3 \/ parts[3] \notin PositiveIntWords)

\* C7: while a command with a missing symbol or an invalid window is
\* handled, no network request is issued.
C7_RejectedBeforeNetwork ==
    MustBeRejected => (netReqs = 0 /\ pc = "input")

C7_Witness ==
    /\ MustBeRejected /\ Len(parts) = 3 /\ parts[3] = "0"
    /\ histAges # <<>>
    /\ netReqs = 0 /\ out = "invalid_window"

\* C8: no command is read before the pause of the last historical fetch is
\* over: at the prompt every historical request is at least PauseUnits old.
C8_PauseBeforeNextCommand ==
    pc = "input" => \A i \in 1..Len(histAges) : histAges[i] >= PauseUnits

C8_Witness ==
    /\ pc = "input" /\ histAges # <<>>
    /\ histAges[Len(histAges)] = PauseUnits
    /\ out = "fetch_message"

\* C10: the historical requests issued within any RateWindow time-units
\* never number more than RateCeiling.
C10_HistoricalRateCeiling == Len(histAges) <= RateCeiling

C10_Witness ==
    /\ Len(histAges) = RateCeiling
    /\ histAges[1] = RateWindow
    /\ histAges[RateCeiling] = 0

====
